---- MODULE Spec2Model ----
(***************************************************************************)
(* IronFist arm-wrestling controller (src/src/IronFist/IronFist.ino).      *)
(* One poll of loop() is the sequence loopBegin, checkButtons, one state   *)
(* handler, updateNeoPixels.  The blocking victory choreography is stepped *)
(* one servo command at a time.  Times are milliseconds of millis().       *)
(***************************************************************************)
EXTENDS Integers, Sequences, FiniteSets, TLC

VARIABLES
  pc,                   \* position inside loop()
  clock,                \* value millis() returns now
  currentTime,          \* loop()'s local poll timestamp
  currentState,
  player1Score,
  player2Score,
  currentServoPosition,
  winner,
  lastGameUpdate,
  gameStartTime,
  musicStartTime,
  currentBeat,
  timeInBeat,           \* numerator of beatPhase (beatPhase = timeInBeat / 571)
  currentIdleEffect,
  effectStartTime,
  lastEffectChange,     \* static local of handleIdleState
  lastButtonStartState,
  lastButtonP1State,
  lastButtonP2State,
  lastButtonStartTime,
  lastDynamicVolume,
  lastVolumeUpdate,     \* static local of updateGame
  dfPlayerReady,
  servoAttached,        \* armServo attach()/detach() status
  dfVolume,             \* last level given to dfPlayer.volume, NoLevel if none
  ko,                   \* locals of performVictoryKnockout
  effectVars,           \* the idle effects' continuation variables
  pinP1,                \* level of the player 1 input at the latest poll (TRUE = active)
  pinP2,                \* level of the player 2 input at the latest poll
  lastRiseTime,         \* history: poll timestamp of the latest active-going start edge, 0 if none
  out,                  \* history: commands issued by the last step
  did,                  \* history: operations the last step executed
  change,               \* history: <<from, to, ms spent in from>> if the last step assigned currentState
  stateAtLoopStart,     \* history: currentState when loop() was entered
  enteredAt,            \* history: millis() when currentState was last assigned
  polls,                \* history: polls begun since currentState was last assigned
  koRuns                \* history: performVictoryKnockout calls since startGame

vars == <<pc, clock, currentTime, currentState, player1Score, player2Score,
          currentServoPosition, winner, lastGameUpdate, gameStartTime,
          musicStartTime, currentBeat, timeInBeat, currentIdleEffect,
          effectStartTime, lastEffectChange, lastButtonStartState,
          lastButtonP1State, lastButtonP2State, lastButtonStartTime,
          lastDynamicVolume, lastVolumeUpdate, dfPlayerReady, servoAttached, dfVolume, ko,
          effectVars, pinP1, pinP2, lastRiseTime, out, did, change, stateAtLoopStart,
          enteredAt, polls, koRuns>>

----------------------------------------------------------------------------
\* Program constants

SERVO_CENTER == 90
SERVO_MIN == 45
SERVO_MAX == 135
BUTTON_DEBOUNCE_MS == 50
GAME_UPDATE_INTERVAL == 50
SERVO_STEP_SIZE == 2
IDLE_VOLUME == 15
GAMEPLAY_MIN_VOLUME == 2
GAMEPLAY_MAX_VOLUME == 15
BEAT_DURATION_MS == 60000 \div 105
COUNTDOWN_MS == 4000
GAME_OVER_MS == 3000
VOLUME_INTERVAL_MS == 200
EFFECT_GAP_MS == 1000
NUM_EFFECTS == 12
LOOP_DELAY_MS == 10
START_DELAY_MS == 500

IDLE == "IDLE"
STARTING == "STARTING"
PLAYING == "PLAYING"
GAME_OVER == "GAME_OVER"
GameState == {IDLE, STARTING, PLAYING, GAME_OVER}

NoLevel == -1

----------------------------------------------------------------------------
\* Bounds of the exploration

MaxClock == 13000       \* no poll starts a delay after this many ms
MaxIdlePolls == 2        \* polls explored in one visit of Idle
MaxStall == 2            \* polls of Playing beyond the two that each click of the leader takes
MaxPressPoll == 2        \* the start input goes active only in the first polls of a state
MaxScore == 24          \* a click is offered only below this score
MaxTrail == 0           \* a click is offered only if the lower score stays <= this
MaxEffectDraw == 0      \* random(0,12) draws are taken from 0..MaxEffectDraw

EffectDraws == {e \in 0..MaxEffectDraw : e < NUM_EFFECTS}

LiveSlack == 12000      \* SpecLive: ms after MaxClock in which a countdown or a victory blink may still end
MaxWipeColor == 1       \* colours are 0 (black) .. MaxWipeColor
SoloPressPoll == 7      \* SpecSolo: the start input goes active only in the first polls of a state

\* the colours a random draw can give
WipeColors == 0..MaxWipeColor
\* ms the counter may advance between loop()'s millis() and startGame()'s
StartLatencies == {0, 1}

----------------------------------------------------------------------------
\* Arithmetic helpers

constrain(x, lo, hi) == IF x < lo THEN lo ELSE IF x > hi THEN hi ELSE x

abs(x) == IF x < 0 THEN -x ELSE x

Min(a, b) == IF a < b THEN a ELSE b

Max(a, b) == IF a > b THEN a ELSE b

\* unsigned long a - b as two 16-bit limbs <<high, low>>; a, b < 2^31
U32Sub(a, b) ==
  IF a >= b
    THEN <<(a - b) \div 65536, (a - b) % 65536>>
    ELSE <<65535 - ((b - a - 1) \div 65536), 65535 - ((b - a - 1) % 65536)>>

\* (unsigned long)(a - b) > k
ElapsedGt(a, b, k) ==
  LET d == U32Sub(a, b)
  IN  \/ d[1] > k \div 65536
      \/ d[1] = k \div 65536 /\ d[2] > k % 65536

----------------------------------------------------------------------------
\* Commands to the external modules

Cmd(dev, arg) == <<dev, arg>>

\* setVolumeWithConstraints: the commands it issues
setVolumeCmds(volume) ==
  IF dfPlayerReady THEN <<Cmd("df.volume", constrain(volume, 0, 30))>> ELSE <<>>

\* variant: the level is scaled down before it is sent
setVolumeLevel_scaled(volume) ==
  IF dfPlayerReady THEN constrain(volume \div 2, 0, 30) ELSE dfVolume

\* setVolumeWithConstraints: the level the module holds afterwards
setVolumeLevel(volume) ==
  IF dfPlayerReady THEN constrain(volume, 0, 30) ELSE dfVolume

----------------------------------------------------------------------------
\* State after setup()

SetupDone(ready) == IF ready THEN 2000 ELSE 1000

\* the values startGame and selectRandomIdleEffect give the continuation
\* variables; wipeColor is c.  The float variables hold numerators:
\* cometPosition and wavePhase count 1/2284.
effectReset(c) ==
  [firstPixelHue |-> 0, cometPosition |-> 0, cometDirection |-> 1,
   breathingPhase |-> 0, larsonPosition |-> 0, larsonDirection |-> 1,
   lastSparkle |-> 0, runningOffset |-> 0, wipePosition |-> 0,
   wipeColor |-> c, theaterStep |-> 0, pulsePhase |-> 0, strobeTimer |-> 0,
   strobeState |-> FALSE, fireIntensityBeat |-> 0, wavePhase |-> 0]

\* the state setup() leaves, with its random(0, 12) drawn from effects
setupState(effects) ==
  /\ dfPlayerReady \in BOOLEAN
  /\ currentIdleEffect \in effects
  /\ \E c \in WipeColors : effectVars = effectReset(c)
  /\ pinP1 = FALSE
  /\ pinP2 = FALSE
  /\ lastRiseTime = 0
  /\ pc = "loop"
  /\ clock = SetupDone(dfPlayerReady)
  /\ currentTime = 0
  /\ currentState = IDLE
  /\ player1Score = 0
  /\ player2Score = 0
  /\ currentServoPosition = SERVO_CENTER
  /\ winner = 0
  /\ lastGameUpdate = 0
  /\ gameStartTime = 0
  /\ musicStartTime = clock
  /\ currentBeat = 0
  /\ timeInBeat = 0
  /\ effectStartTime = clock
  /\ lastEffectChange = 0
  /\ lastButtonStartState = TRUE
  /\ lastButtonP1State = TRUE
  /\ lastButtonP2State = TRUE
  /\ lastButtonStartTime = 0
  /\ lastDynamicVolume = GAMEPLAY_MIN_VOLUME
  /\ lastVolumeUpdate = 0
  /\ servoAttached = FALSE
  /\ dfVolume = (IF dfPlayerReady THEN IDLE_VOLUME ELSE NoLevel)
  /\ ko = [pullbackPosition |-> 0, finalPosition |-> 0, step |-> 0, i |-> 0]
  /\ out = <<>>
  /\ did = {}
  /\ change = <<>>
  /\ stateAtLoopStart = IDLE
  /\ enteredAt = clock
  /\ polls = 0
  /\ koRuns = 0

Init == setupState(EffectDraws)

----------------------------------------------------------------------------
\* loop(): read the poll timestamp, updateMusicTiming

\* 2^32 = Q32 * 571 + R32, used when the subtraction wraps
Q32 == 7521834
R32 == 82

\* variant: the beat count is rounded to the nearest beat
beatOf_rounded(t, epoch) ==
  IF t >= epoch THEN ((t - epoch) + (BEAT_DURATION_MS \div 2)) \div BEAT_DURATION_MS
  ELSE Q32 + ((R32 - (epoch - t)) \div BEAT_DURATION_MS)

beatOf(t, epoch) ==
  IF t >= epoch THEN (t - epoch) \div BEAT_DURATION_MS
  ELSE Q32 + ((R32 - (epoch - t)) \div BEAT_DURATION_MS)

timeInBeatOf(t, epoch) ==
  IF t >= epoch THEN (t - epoch) % BEAT_DURATION_MS
  ELSE (R32 - (epoch - t)) % BEAT_DURATION_MS

loopBegin ==
  /\ pc = "loop"
  /\ currentTime' = clock
  /\ currentBeat' = beatOf(clock, musicStartTime)
  /\ timeInBeat' = timeInBeatOf(clock, musicStartTime)
  /\ stateAtLoopStart' = currentState
  /\ polls' = polls + 1
  /\ out' = <<>>
  /\ did' = {}
  /\ change' = <<>>
  /\ pc' = "checkButtons"
  /\ UNCHANGED <<clock, currentState, player1Score, player2Score,
                 currentServoPosition, winner, lastGameUpdate, gameStartTime,
                 musicStartTime, currentIdleEffect, effectStartTime,
                 lastEffectChange, lastButtonStartState, lastButtonP1State,
                 lastButtonP2State, lastButtonStartTime, lastDynamicVolume,
                 lastVolumeUpdate, dfPlayerReady, servoAttached,
                 dfVolume, ko, effectVars, pinP1, pinP2, lastRiseTime, enteredAt, koRuns>>

----------------------------------------------------------------------------
\* checkButtons, onStartButtonPressed, startGame

\* variant: the debounce test is dropped
startEdge_noDebounce(pressed) == pressed /\ ~lastButtonStartState

\* the start edge passes the debounce test
startEdge(pressed) ==
  /\ pressed
  /\ ~lastButtonStartState
  /\ ElapsedGt(currentTime, lastButtonStartTime, BUTTON_DEBOUNCE_MS)

\* variant: a press is refused only during a round
startAllowed_notPlaying == currentState # PLAYING

\* variant: a press is refused only during the countdown
startAllowed_notStarting == currentState # STARTING

\* onStartButtonPressed: the states in which a press starts a game
startAllowed == currentState = IDLE \/ currentState = GAME_OVER

\* variant: the player inputs are sampled in every state
playersSampled_always == TRUE

\* checkButtons samples the player inputs
playersSampled == currentState = PLAYING

\* a player's score after one sample of that player's input
scoreAfter(score, pressed, last) ==
  IF pressed /\ ~last THEN score + 1 ELSE score

\* the samples of the two player inputs offered in this poll
PlayerInputs ==
  {b \in BOOLEAN \X BOOLEAN :
     LET s1 == scoreAfter(player1Score, b[1], lastButtonP1State)
         s2 == scoreAfter(player2Score, b[2], lastButtonP2State)
     IN  s1 <= MaxScore /\ s2 <= MaxScore /\ Min(s1, s2) <= MaxTrail}

\* variant: the winner of the last round is kept
startReset_keepWinner ==
  /\ player1Score' = 0
  /\ player2Score' = 0
  /\ UNCHANGED winner
  /\ currentServoPosition' = SERVO_CENTER
  /\ lastDynamicVolume' = GAMEPLAY_MIN_VOLUME

\* startGame: the game variables it resets
startReset ==
  /\ player1Score' = 0
  /\ player2Score' = 0
  /\ winner' = 0
  /\ currentServoPosition' = SERVO_CENTER
  /\ lastDynamicVolume' = GAMEPLAY_MIN_VOLUME

\* variant: the wipe colour is left as the last effect had it
startEffectReset_keepColor == effectVars' = effectReset(effectVars.wipeColor)

\* startGame: the idle effect variables it resets
startEffectReset == effectVars' = effectReset(0)

\* variant: the servo is written before it is attached
startGameCmds_writeFirst ==
  (IF dfPlayerReady THEN <<Cmd("df.play", 2)>> ELSE <<>>)
    \o <<Cmd("servo.write", SERVO_CENTER), Cmd("servo.attach", 0)>>

\* variant: the start sound is played without testing dfPlayerReady
startGameCmds_unguarded ==
  <<Cmd("df.play", 2), Cmd("servo.attach", 0), Cmd("servo.write", SERVO_CENTER)>>

startGameCmds ==
  (IF dfPlayerReady THEN <<Cmd("df.play", 2)>> ELSE <<>>)
    \o <<Cmd("servo.attach", 0), Cmd("servo.write", SERVO_CENTER)>>

\* startGame(); lat ms pass before it reads millis()
startGame(lat) ==
  /\ currentState' = STARTING
  /\ gameStartTime' = clock + lat
  /\ enteredAt' = clock + lat
  /\ polls' = 0
  /\ startReset
  /\ startEffectReset
  /\ change' = <<currentState, STARTING, clock + lat - enteredAt>>
  /\ servoAttached' = TRUE
  /\ clock' = clock + lat + START_DELAY_MS
  /\ koRuns' = 0
  /\ out' = startGameCmds
  /\ did' = {"startRise", "startEdge", "startGame", "delay"}
  /\ UNCHANGED <<lastButtonP1State, lastButtonP2State>>

\* the player-input part of checkButtons when no game was started
samplePlayers(b) ==
  /\ player1Score' = scoreAfter(player1Score, b[1], lastButtonP1State)
  /\ player2Score' = scoreAfter(player2Score, b[2], lastButtonP2State)
  /\ lastButtonP1State' = b[1]
  /\ lastButtonP2State' = b[2]

\* the samples of the start input offered in this poll
StartInputs ==
  {s \in BOOLEAN : s => (lastButtonStartState \/ polls <= MaxPressPoll)}

\* the levels of the two player inputs offered while they are not sampled
IdlePins == BOOLEAN \X BOOLEAN

\* the levels of the two player inputs offered in this poll
PinInputs == IF playersSampled THEN PlayerInputs ELSE IdlePins

\* checkButtons with the start input drawn from starts and the player
\* inputs from pins
checkButtonsOn(starts, pins) ==
  /\ pc = "checkButtons"
  /\ \E s \in starts, b \in pins :
       /\ lastButtonStartState' = s
       /\ pinP1' = b[1]
       /\ pinP2' = b[2]
       /\ lastRiseTime' =
            (IF s /\ ~lastButtonStartState THEN currentTime ELSE lastRiseTime)
       /\ lastButtonStartTime' =
            (IF startEdge(s) THEN currentTime ELSE lastButtonStartTime)
       /\ IF startEdge(s) /\ startAllowed
            THEN \E lat \in StartLatencies : startGame(lat)
            ELSE /\ IF playersSampled
                      THEN samplePlayers(b)
                      ELSE UNCHANGED <<player1Score, player2Score,
                                       lastButtonP1State, lastButtonP2State>>
                 /\ did' = (IF startEdge(s) THEN {"startEdge"} ELSE {})
                      \cup (IF s /\ ~lastButtonStartState THEN {"startRise"} ELSE {})
                      \cup (IF player1Score' # player1Score THEN {"click1"} ELSE {})
                      \cup (IF player2Score' # player2Score THEN {"click2"} ELSE {})
                 /\ out' = <<>>
                 /\ change' = <<>>
                 /\ UNCHANGED <<currentState, gameStartTime, enteredAt, polls, winner,
                                currentServoPosition, lastDynamicVolume,
                                servoAttached, clock, koRuns, effectVars>>
  /\ pc' = "dispatch"
  /\ UNCHANGED <<currentTime, lastGameUpdate, musicStartTime, currentBeat,
                 timeInBeat, currentIdleEffect, effectStartTime,
                 lastEffectChange, lastVolumeUpdate, dfPlayerReady, dfVolume,
                 ko, stateAtLoopStart>>

checkButtons == checkButtonsOn(StartInputs, PinInputs)

----------------------------------------------------------------------------
\* handleIdleState, selectRandomIdleEffect

\* beatPhase < 0.1 with beatPhase = timeInBeat / 571.0
phaseBelowTenth == timeInBeat * 10 < BEAT_DURATION_MS

\* variant: the test of the time since the last change is dropped
effectDue_noGap ==
  /\ currentBeat > 0
  /\ currentBeat % 8 = 0
  /\ phaseBelowTenth

\* handleIdleState: the periodic change of effect is due in this poll
effectDue ==
  /\ currentBeat > 0
  /\ currentBeat % 8 = 0
  /\ phaseBelowTenth
  /\ ElapsedGt(currentTime, lastEffectChange, EFFECT_GAP_MS)

\* variant: cometPosition is left as the last effect had it
selectRandomIdleEffect_keepComet(e, c, now) ==
  /\ currentIdleEffect' = e
  /\ effectStartTime' = now
  /\ effectVars' = [effectReset(c) EXCEPT !.cometPosition = effectVars.cometPosition]

\* selectRandomIdleEffect() called when millis() reads now, random(0,12) = e
\* and the colour drawn for wipeColor is c
selectRandomIdleEffect(e, c, now) ==
  /\ currentIdleEffect' = e
  /\ effectStartTime' = now
  /\ effectVars' = effectReset(c)

handleIdleState(draws) ==
  /\ pc = "dispatch"
  /\ currentState = IDLE
  /\ IF effectDue
       THEN /\ \E e \in draws, c \in WipeColors :
                 selectRandomIdleEffect(e, c, clock)
            /\ lastEffectChange' = currentTime
            /\ did' = {"selectEffect"}
       ELSE /\ UNCHANGED <<currentIdleEffect, effectStartTime, lastEffectChange,
                           effectVars>>
            /\ did' = {}
  /\ out' = <<>>
  /\ change' = <<>>
  /\ pc' = "updateNeoPixels"
  /\ UNCHANGED <<clock, currentTime, currentState, player1Score, player2Score,
                 currentServoPosition, winner, lastGameUpdate, gameStartTime,
                 musicStartTime, currentBeat, timeInBeat, lastButtonStartState,
                 lastButtonP1State, lastButtonP2State, lastButtonStartTime,
                 lastDynamicVolume, lastVolumeUpdate, dfPlayerReady,
                 servoAttached, dfVolume, ko, pinP1, pinP2, lastRiseTime, stateAtLoopStart,
                 enteredAt, polls, koRuns>>

----------------------------------------------------------------------------
\* handleStartingState

AUDIO_START_DELAY_MS == 200

\* variant: the countdown never ends
countdownOver_never == FALSE

countdownOver == ElapsedGt(currentTime, gameStartTime, COUNTDOWN_MS)

handleStartingState ==
  /\ pc = "dispatch"
  /\ currentState = STARTING
  /\ IF countdownOver
       THEN /\ currentState' = PLAYING
            /\ enteredAt' = clock
            /\ polls' = 0
            /\ IF dfPlayerReady
                 THEN /\ clock' = clock + AUDIO_START_DELAY_MS
                      /\ out' = <<Cmd("df.loop", 4)>>
                                  \o setVolumeCmds(GAMEPLAY_MIN_VOLUME)
                      /\ dfVolume' = setVolumeLevel(GAMEPLAY_MIN_VOLUME)
                      /\ lastDynamicVolume' = GAMEPLAY_MIN_VOLUME
                 ELSE /\ out' = <<>>
                      /\ UNCHANGED <<clock, dfVolume, lastDynamicVolume>>
            /\ did' = {"toPlaying"}
                        \cup (IF dfPlayerReady THEN {"delay"} ELSE {})
            /\ change' = <<STARTING, PLAYING, clock - enteredAt>>
       ELSE /\ out' = <<>>
            /\ did' = {}
            /\ change' = <<>>
            /\ UNCHANGED <<currentState, enteredAt, polls, clock, dfVolume,
                           lastDynamicVolume>>
  /\ pc' = "updateNeoPixels"
  /\ UNCHANGED <<currentTime, player1Score, player2Score, currentServoPosition,
                 winner, lastGameUpdate, gameStartTime, musicStartTime,
                 currentBeat, timeInBeat, currentIdleEffect, effectStartTime,
                 lastEffectChange, lastButtonStartState, lastButtonP1State,
                 lastButtonP2State, lastButtonStartTime, lastVolumeUpdate,
                 dfPlayerReady, servoAttached, ko, effectVars, pinP1, pinP2, lastRiseTime,
                 stateAtLoopStart, koRuns>>

----------------------------------------------------------------------------
\* handlePlayingState, updateGame

JITTER_MIN == -2
JITTER_MAX == 2
\* variant: random(-3, 4)
Jitters_wide == (JITTER_MIN - 1)..(JITTER_MAX + 1)

Jitters == JITTER_MIN..JITTER_MAX

\* variant: the step size is applied twice to the score difference
targetPosition_stepTwice(p1, p2) ==
  constrain(SERVO_CENTER + ((p1 - p2) * SERVO_STEP_SIZE * SERVO_STEP_SIZE),
            SERVO_MIN, SERVO_MAX)

targetPosition(p1, p2) ==
  constrain(SERVO_CENTER + ((p1 - p2) * SERVO_STEP_SIZE), SERVO_MIN, SERVO_MAX)

\* the angle written by updateGame for jitter j
jitteredPosition(pos, j) == constrain(pos + j, SERVO_MIN, SERVO_MAX)

\* variant: the distance from the centre keeps its sign
dynamicVolume_signed(pos) ==
  constrain(GAMEPLAY_MIN_VOLUME
              + (((pos - SERVO_CENTER)
                    * (GAMEPLAY_MAX_VOLUME - GAMEPLAY_MIN_VOLUME))
                   \div (SERVO_MAX - SERVO_CENTER)),
            GAMEPLAY_MIN_VOLUME, GAMEPLAY_MAX_VOLUME)

\* dynamicVolume for the authoritative position pos
dynamicVolume(pos) ==
  constrain(GAMEPLAY_MIN_VOLUME
              + ((abs(pos - SERVO_CENTER)
                    * (GAMEPLAY_MAX_VOLUME - GAMEPLAY_MIN_VOLUME))
                   \div (SERVO_MAX - SERVO_CENTER)),
            GAMEPLAY_MIN_VOLUME, GAMEPLAY_MAX_VOLUME)

\* variant: the level is sent again when it has not changed
volumeDue_unchangedLevel(pos) ==
  /\ dfPlayerReady
  /\ ElapsedGt(clock, lastVolumeUpdate, VOLUME_INTERVAL_MS)

\* updateGame sends a volume command for position pos
volumeDue(pos) ==
  /\ dfPlayerReady
  /\ ElapsedGt(clock, lastVolumeUpdate, VOLUME_INTERVAL_MS)
  /\ \/ lastVolumeUpdate = 0
     \/ abs(dynamicVolume(pos) - lastDynamicVolume) >= 1

gameUpdateDue == ElapsedGt(currentTime, lastGameUpdate, GAME_UPDATE_INTERVAL)

\* variant: the two winners are exchanged
winnerAt_swapped(pos) ==
  IF pos <= SERVO_MIN THEN 1 ELSE IF pos >= SERVO_MAX THEN 2 ELSE 0

\* the win check of handlePlayingState: 0 none, 1 player 1, 2 player 2
winnerAt(pos) ==
  IF pos <= SERVO_MIN THEN 2 ELSE IF pos >= SERVO_MAX THEN 1 ELSE 0

PULLBACK == 30
PULLBACK_STEP == 2

\* performVictoryKnockout: the locals set before the pullback loop
knockoutEntry(winningPlayer, pos) ==
  LET pb == IF winningPlayer = 1
              THEN constrain(pos - PULLBACK, SERVO_MIN, SERVO_MAX)
              ELSE constrain(pos + PULLBACK, SERVO_MIN, SERVO_MAX)
  IN  [pullbackPosition |-> pb,
       finalPosition |-> 0,
       step |-> IF pb > pos THEN PULLBACK_STEP ELSE -PULLBACK_STEP,
       i |-> 0]

NoKnockout == [pullbackPosition |-> 0, finalPosition |-> 0, step |-> 0, i |-> 0]

\* variant: the jittered angle is stored as the position
updateGame_jitterStored(j) ==
  LET pos == targetPosition(player1Score, player2Score)
  IN  /\ currentServoPosition' = jitteredPosition(pos, j)
      /\ IF volumeDue(pos)
           THEN /\ dfVolume' = setVolumeLevel(dynamicVolume(pos))
                /\ lastDynamicVolume' = dynamicVolume(pos)
                /\ lastVolumeUpdate' = clock
           ELSE UNCHANGED <<dfVolume, lastDynamicVolume, lastVolumeUpdate>>
      /\ out' = <<Cmd("servo.write", jitteredPosition(pos, j))>>
                  \o (IF volumeDue(pos)
                        THEN setVolumeCmds(dynamicVolume(pos)) ELSE <<>>)

\* updateGame() with random(-2, 3) = j
updateGame(j) ==
  LET pos == targetPosition(player1Score, player2Score)
  IN  /\ currentServoPosition' = pos
      /\ IF volumeDue(pos)
           THEN /\ dfVolume' = setVolumeLevel(dynamicVolume(pos))
                /\ lastDynamicVolume' = dynamicVolume(pos)
                /\ lastVolumeUpdate' = clock
           ELSE UNCHANGED <<dfVolume, lastDynamicVolume, lastVolumeUpdate>>
      /\ out' = <<Cmd("servo.write", jitteredPosition(pos, j))>>
                  \o (IF volumeDue(pos)
                        THEN setVolumeCmds(dynamicVolume(pos)) ELSE <<>>)

handlePlayingState ==
  /\ pc = "dispatch"
  /\ currentState = PLAYING
  /\ IF gameUpdateDue
       THEN /\ \E j \in Jitters : updateGame(j)
            /\ lastGameUpdate' = currentTime
       ELSE /\ out' = <<>>
            /\ UNCHANGED <<currentServoPosition, dfVolume,
                           lastDynamicVolume, lastVolumeUpdate, lastGameUpdate>>
  /\ change' = <<>>
  /\ winner' = (IF winnerAt(currentServoPosition') # 0
                  THEN winnerAt(currentServoPosition') ELSE winner)
  /\ IF winnerAt(currentServoPosition') # 0
       THEN /\ ko' = knockoutEntry(winner', currentServoPosition')
            /\ koRuns' = koRuns + 1
            /\ pc' = "pullback"
            /\ did' = (IF gameUpdateDue THEN {"updateGame"} ELSE {})
                        \cup {"win", "knockout"}
       ELSE /\ pc' = "updateNeoPixels"
            /\ did' = (IF gameUpdateDue THEN {"updateGame"} ELSE {})
            /\ UNCHANGED <<ko, koRuns>>
  /\ UNCHANGED <<clock, currentTime, currentState, player1Score, player2Score,
                 gameStartTime, musicStartTime, currentBeat, timeInBeat,
                 currentIdleEffect, effectStartTime, lastEffectChange,
                 lastButtonStartState, lastButtonP1State, lastButtonP2State,
                 lastButtonStartTime, dfPlayerReady, servoAttached,
                 effectVars, pinP1, pinP2, lastRiseTime, stateAtLoopStart, enteredAt, polls>>

----------------------------------------------------------------------------
\* performVictoryKnockout, one servo command per step

PULLBACK_DELAY_MS == 15
PULLBACK_PAUSE_MS == 150
STRIKE_STEP == 5
STRIKE_DELAY_MS == 8
TREMOR == 3
TREMOR_COUNT == 6
TREMOR_DELAY_MS == 40

\* variant: the strike goes to the loser's side
finalPositionOf_swapped(winningPlayer) ==
  IF winningPlayer = 1 THEN SERVO_MIN ELSE SERVO_MAX

finalPositionOf(winningPlayer) ==
  IF winningPlayer = 1 THEN SERVO_MAX ELSE SERVO_MIN

\* variant: the tremor angle is not constrained
tremorPosition_unclamped(final, i) ==
  final + (IF i % 2 = 0 THEN TREMOR ELSE -TREMOR)

\* variant: every tremor goes to the same side
tremorPosition_sameSide(final, i) ==
  constrain(final + TREMOR, SERVO_MIN, SERVO_MAX)

\* the angle written by tremor iteration i
tremorPosition(final, i) ==
  constrain(final + (IF i % 2 = 0 THEN TREMOR ELSE -TREMOR),
            SERVO_MIN, SERVO_MAX)

\* one position update of the pullback and strike loops
knockoutMove(pos, step) == constrain(pos + step, SERVO_MIN, SERVO_MAX)

knockoutFrame ==
  UNCHANGED <<currentTime, currentState, player1Score, player2Score, winner,
              lastGameUpdate, gameStartTime, musicStartTime, currentBeat,
              timeInBeat, currentIdleEffect, effectStartTime, lastEffectChange,
              lastButtonStartState, lastButtonP1State, lastButtonP2State,
              lastButtonStartTime, lastDynamicVolume, lastVolumeUpdate,
              dfPlayerReady, servoAttached, dfVolume, effectVars, pinP1,
              pinP2, lastRiseTime, stateAtLoopStart, enteredAt, polls, koRuns>>

knockoutPullback ==
  /\ pc = "pullback"
  /\ IF abs(currentServoPosition - ko.pullbackPosition) > 1
       THEN /\ currentServoPosition' =
                 knockoutMove(currentServoPosition, ko.step)
            /\ clock' = clock + PULLBACK_DELAY_MS
            /\ UNCHANGED <<pc, ko>>
       ELSE /\ currentServoPosition' = ko.pullbackPosition
            /\ clock' = clock + PULLBACK_PAUSE_MS
            /\ ko' = [ko EXCEPT
                        !.finalPosition = finalPositionOf(winner),
                        !.step = IF finalPositionOf(winner) > ko.pullbackPosition
                                   THEN STRIKE_STEP ELSE -STRIKE_STEP]
            /\ pc' = "strike"
  /\ out' = <<Cmd("servo.write", currentServoPosition')>>
  /\ did' = {"knockout"} \cup (IF clock' # clock THEN {"delay"} ELSE {})
  /\ change' = <<>>
  /\ knockoutFrame

knockoutStrike ==
  /\ pc = "strike"
  /\ IF abs(currentServoPosition - ko.finalPosition) > 4
       THEN /\ currentServoPosition' =
                 knockoutMove(currentServoPosition, ko.step)
            /\ clock' = clock + STRIKE_DELAY_MS
            /\ UNCHANGED <<pc, ko>>
       ELSE /\ currentServoPosition' = ko.finalPosition
            /\ ko' = [ko EXCEPT !.i = 0]
            /\ pc' = "tremor"
            /\ UNCHANGED clock
  /\ out' = <<Cmd("servo.write", currentServoPosition')>>
  /\ did' = {"knockout"} \cup (IF clock' # clock THEN {"delay"} ELSE {})
  /\ change' = <<>>
  /\ knockoutFrame

knockoutTremor ==
  /\ pc = "tremor"
  /\ IF ko.i < TREMOR_COUNT
       THEN /\ out' = <<Cmd("servo.write",
                             tremorPosition(ko.finalPosition, ko.i))>>
            /\ clock' = clock + TREMOR_DELAY_MS
            /\ ko' = [ko EXCEPT !.i = ko.i + 1]
            /\ UNCHANGED <<pc, currentServoPosition>>
       ELSE /\ out' = <<Cmd("servo.write", ko.finalPosition)>>
            /\ currentServoPosition' = ko.finalPosition
            /\ ko' = NoKnockout
            /\ pc' = "endGame"
            /\ UNCHANGED clock
  /\ did' = {"knockout"} \cup (IF clock' # clock THEN {"delay"} ELSE {})
  /\ change' = <<>>
  /\ knockoutFrame

----------------------------------------------------------------------------
\* endGame

AUDIO_STOP_DELAY_MS == 100

endGame ==
  /\ pc = "endGame"
  /\ currentState' = GAME_OVER
  /\ gameStartTime' = clock
  /\ enteredAt' = clock
  /\ polls' = 0
  /\ IF dfPlayerReady
       THEN /\ clock' = clock + AUDIO_STOP_DELAY_MS
            /\ out' = <<Cmd("df.stop", 0)>> \o setVolumeCmds(IDLE_VOLUME)
                        \o <<Cmd("df.play", 3)>>
            /\ dfVolume' = setVolumeLevel(IDLE_VOLUME)
       ELSE /\ out' = <<>>
            /\ UNCHANGED <<clock, dfVolume>>
  /\ did' = {"endGame"} \cup (IF dfPlayerReady THEN {"delay"} ELSE {})
  /\ change' = <<PLAYING, GAME_OVER, clock - enteredAt>>
  /\ pc' = "updateNeoPixels"
  /\ UNCHANGED <<currentTime, player1Score, player2Score, currentServoPosition,
                 winner, lastGameUpdate, musicStartTime, currentBeat,
                 timeInBeat, currentIdleEffect, effectStartTime,
                 lastEffectChange, lastButtonStartState, lastButtonP1State,
                 lastButtonP2State, lastButtonStartTime, lastDynamicVolume,
                 lastVolumeUpdate, dfPlayerReady, servoAttached,
                 ko, effectVars, pinP1, pinP2, lastRiseTime, stateAtLoopStart, koRuns>>

----------------------------------------------------------------------------
\* handleGameOverState

CENTER_DELAY_MS == 500

\* variant: the blink time is measured from the music epoch
gameOverElapsed_musicEpoch == ElapsedGt(currentTime, musicStartTime, GAME_OVER_MS)

gameOverElapsed == ElapsedGt(currentTime, gameStartTime, GAME_OVER_MS)

handleGameOverState(draws) ==
  /\ pc = "dispatch"
  /\ currentState = GAME_OVER
  /\ IF gameOverElapsed
       THEN /\ clock' = clock + CENTER_DELAY_MS
            /\ servoAttached' = FALSE
            /\ dfVolume' = setVolumeLevel(IDLE_VOLUME)
            /\ out' = <<Cmd("servo.write", SERVO_CENTER), Cmd("servo.detach", 0)>>
                        \o setVolumeCmds(IDLE_VOLUME)
                        \o (IF dfPlayerReady THEN <<Cmd("df.play", 1)>> ELSE <<>>)
            /\ musicStartTime' = clock'
            /\ \E e \in draws, c \in WipeColors :
                 selectRandomIdleEffect(e, c, clock')
            /\ currentState' = IDLE
            /\ enteredAt' = clock'
            /\ polls' = 0
            /\ did' = {"toIdle", "selectEffect", "delay"}
            /\ change' = <<GAME_OVER, IDLE, clock - enteredAt>>
       ELSE /\ out' = <<>>
            /\ did' = {}
            /\ change' = <<>>
            /\ UNCHANGED <<clock, servoAttached, dfVolume,
                           musicStartTime, currentIdleEffect, effectStartTime,
                           effectVars, currentState, enteredAt, polls>>
  /\ pc' = "updateNeoPixels"
  /\ UNCHANGED <<currentTime, player1Score, player2Score, currentServoPosition,
                 winner, lastGameUpdate, gameStartTime, currentBeat, timeInBeat,
                 lastEffectChange, lastButtonStartState, lastButtonP1State,
                 lastButtonP2State, lastButtonStartTime, lastDynamicVolume,
                 lastVolumeUpdate, dfPlayerReady, ko, pinP1, pinP2, lastRiseTime,
                 stateAtLoopStart, koRuns>>

----------------------------------------------------------------------------
\* updateNeoPixels and the delay(10) that ends loop()

\* A poll lasts the delay(10) plus the time of the loop body.  While Playing
\* the body is taken as instantaneous; in the waiting states only every
\* WaitStride-th poll is explored, as one slow poll.
WaitStride == 100

pollDelay ==
  IF currentState = PLAYING THEN LOOP_DELAY_MS ELSE WaitStride * LOOP_DELAY_MS

\* numerator over 4 * 571 of fmod(beatPhase + (currentBeat % 4) * 0.25, 1.0)
fourBeatProgress ==
  ((4 * timeInBeat) + (BEAT_DURATION_MS * (currentBeat % 4)))
    % (4 * BEAT_DURATION_MS)

\* numerator over 2 * 571 of fmod(beatPhase + (currentBeat % 2) * 0.5, 1.0)
twoBeatProgress ==
  ((2 * timeInBeat) + (BEAT_DURATION_MS * (currentBeat % 2)))
    % (2 * BEAT_DURATION_MS)

NEOPIXEL_COUNT == 8

\* larsonScannerEffect: the scanner position of the triangular sweep
larsonSweep ==
  IF twoBeatProgress < BEAT_DURATION_MS
    THEN (2 * twoBeatProgress * (NEOPIXEL_COUNT - 1)) \div (2 * BEAT_DURATION_MS)
    ELSE (((4 * BEAT_DURATION_MS) - (2 * twoBeatProgress)) * (NEOPIXEL_COUNT - 1))
           \div (2 * BEAT_DURATION_MS)

\* the colours ColorHSV(random(65536), 255, 255) can give: never black
HsvColors == {c \in WipeColors : c # 0}

\* showMusicSynchronizedAnimation: the continuation variables the
\* generator of currentIdleEffect leaves; c is the colour colorWipeEffect draws
effectStep(c) ==
  CASE currentIdleEffect = 1 ->
         [effectVars EXCEPT
            !.cometPosition = fourBeatProgress * (NEOPIXEL_COUNT - 1)]
    [] currentIdleEffect = 4 ->
         [effectVars EXCEPT
            !.wavePhase = (4 * timeInBeat) + (BEAT_DURATION_MS * currentBeat)]
    [] currentIdleEffect = 5 ->
         [effectVars EXCEPT !.larsonPosition = larsonSweep]
    [] currentIdleEffect = 8 ->
         [effectVars EXCEPT
            !.wipePosition = (fourBeatProgress * (NEOPIXEL_COUNT * 2))
                               \div (4 * BEAT_DURATION_MS),
            !.wipeColor = IF currentBeat % 4 = 0 /\ phaseBelowTenth
                            THEN c ELSE effectVars.wipeColor]
    [] currentIdleEffect = 9 ->
         [effectVars EXCEPT !.theaterStep = (currentBeat * 4) % 3]
    [] OTHER -> effectVars

\* updateNeoPixels and the delay that ends the poll; explored while the
\* clock is within limit and Idle has begun fewer than idlePolls polls
updateNeoPixelsOn(limit, delay, idlePolls) ==
  /\ pc = "updateNeoPixels"
  /\ clock <= limit
  /\ currentState = PLAYING => polls - 2 * Max(player1Score, player2Score) < MaxStall
  /\ currentState = IDLE => polls < idlePolls
  /\ clock' = clock + delay
  /\ IF currentState = IDLE
       THEN \E c \in HsvColors : effectVars' = effectStep(c)
       ELSE UNCHANGED effectVars
  /\ out' = <<>>
  /\ did' = {}
  /\ change' = <<>>
  /\ pc' = "loop"
  /\ UNCHANGED <<currentTime, currentState, player1Score, player2Score,
                 currentServoPosition, winner, lastGameUpdate, gameStartTime,
                 musicStartTime, currentBeat, timeInBeat, currentIdleEffect,
                 effectStartTime, lastEffectChange, lastButtonStartState,
                 lastButtonP1State, lastButtonP2State, lastButtonStartTime,
                 lastDynamicVolume, lastVolumeUpdate, dfPlayerReady,
                 servoAttached, dfVolume, ko, pinP1, pinP2, lastRiseTime, stateAtLoopStart,
                 enteredAt, polls, koRuns>>

updateNeoPixels == updateNeoPixelsOn(MaxClock, pollDelay, MaxIdlePolls)

----------------------------------------------------------------------------

Next ==
  \/ loopBegin
  \/ checkButtons
  \/ handleIdleState(EffectDraws)
  \/ handleStartingState
  \/ handlePlayingState
  \/ knockoutPullback
  \/ knockoutStrike
  \/ knockoutTremor
  \/ endGame
  \/ handleGameOverState(EffectDraws)
  \/ updateNeoPixels

Spec == Init /\ [][Next]_vars

----------------------------------------------------------------------------
\* The same program with one player: player 1 presses and releases in
\* alternate polls of a round and player 2 never presses, the start input
\* is free for the first SoloPressPoll polls of each state, and every effect
\* can be drawn.

AllEffects == 0..(NUM_EFFECTS - 1)

SoloStartInputs ==
  {s \in BOOLEAN : s => (lastButtonStartState \/ polls <= SoloPressPoll)}

SoloPins ==
  IF playersSampled THEN {<<~lastButtonP1State, FALSE>>} ELSE {<<FALSE, FALSE>>}

InitSolo == setupState(AllEffects)

NextSolo ==
  \/ loopBegin
  \/ checkButtonsOn(SoloStartInputs, SoloPins)
  \/ handleIdleState(AllEffects)
  \/ handleStartingState
  \/ handlePlayingState
  \/ knockoutPullback
  \/ knockoutStrike
  \/ knockoutTremor
  \/ endGame
  \/ handleGameOverState(AllEffects)
  \/ updateNeoPixels

SpecSolo == InitSolo /\ [][NextSolo]_vars

----------------------------------------------------------------------------
\* performVictoryKnockout(winningPlayer) on its own, entered at any position
\* of [SERVO_MIN, SERVO_MAX] (handlePlayingState enters it at SERVO_MAX for
\* player 1 and at SERVO_MIN for player 2).  The routine runs to its end
\* without yielding, hence the fairness on its steps.

InitKnockout ==
  /\ winner \in {1, 2}
  /\ currentServoPosition \in SERVO_MIN..SERVO_MAX
  /\ ko = knockoutEntry(winner, currentServoPosition)
  /\ pc = "pullback"
  /\ dfPlayerReady \in BOOLEAN
  /\ currentState = PLAYING
  /\ clock = SetupDone(dfPlayerReady) + START_DELAY_MS + COUNTDOWN_MS
              + WaitStride * LOOP_DELAY_MS
  /\ currentTime = clock
  /\ player1Score = 0
  /\ player2Score = 0
  /\ lastGameUpdate = clock
  /\ gameStartTime = SetupDone(dfPlayerReady)
  /\ musicStartTime = SetupDone(dfPlayerReady)
  /\ currentBeat = beatOf(clock, musicStartTime)
  /\ timeInBeat = timeInBeatOf(clock, musicStartTime)
  /\ currentIdleEffect = 0
  /\ effectVars = effectReset(0)
  /\ effectStartTime = SetupDone(dfPlayerReady)
  /\ lastEffectChange = 0
  /\ lastButtonStartState = FALSE
  /\ lastButtonP1State = FALSE
  /\ lastButtonP2State = FALSE
  /\ pinP1 = FALSE
  /\ pinP2 = FALSE
  /\ lastRiseTime = SetupDone(dfPlayerReady)
  /\ lastButtonStartTime = SetupDone(dfPlayerReady)
  /\ lastDynamicVolume = GAMEPLAY_MIN_VOLUME
  /\ lastVolumeUpdate = 0
  /\ servoAttached = TRUE
  /\ dfVolume = (IF dfPlayerReady THEN GAMEPLAY_MIN_VOLUME ELSE NoLevel)
  /\ out = <<>>
  /\ did = {"win", "knockout"}
  /\ change = <<>>
  /\ stateAtLoopStart = PLAYING
  /\ enteredAt = clock
  /\ polls = 1
  /\ koRuns = 1

NextKnockout ==
  \/ knockoutPullback
  \/ knockoutStrike
  \/ knockoutTremor

SpecKnockout ==
  InitKnockout /\ [][NextKnockout]_vars /\ WF_vars(NextKnockout)

----------------------------------------------------------------------------
\* The same program with every poll of Idle explored, 10 ms apart, so that
\* the polls inside the beat window of handleIdleState are seen; one player,
\* every effect can be drawn, the start input is free in the first
\* MaxPressPoll polls of a state.

idlePollDelay == IF currentState = IDLE THEN LOOP_DELAY_MS ELSE pollDelay

\* Idle is never cut short before MaxClock
IdleRunPolls == MaxClock

NextIdle ==
  \/ loopBegin
  \/ checkButtonsOn(StartInputs, SoloPins)
  \/ handleIdleState(AllEffects)
  \/ handleStartingState
  \/ handlePlayingState
  \/ knockoutPullback
  \/ knockoutStrike
  \/ knockoutTremor
  \/ endGame
  \/ handleGameOverState(AllEffects)
  \/ updateNeoPixelsOn(MaxClock, idlePollDelay, IdleRunPolls)

SpecIdle == InitSolo /\ [][NextIdle]_vars

----------------------------------------------------------------------------
\* The same program for the progress of the countdown and of the victory
\* blink: the start input is free in every poll of Starting and GameOver,
\* and a countdown or a blink begun before MaxClock is polled to its end.
\* loop() is called again as soon as it returns, hence the fairness.

LiveStartInputs ==
  {s \in BOOLEAN :
     s => \/ lastButtonStartState
          \/ currentState \in {STARTING, GAME_OVER}
          \/ polls <= MaxPressPoll}

liveLimit ==
  IF currentState \in {STARTING, GAME_OVER} THEN MaxClock + LiveSlack
                                            ELSE MaxClock

NextLive ==
  \/ loopBegin
  \/ checkButtonsOn(LiveStartInputs, SoloPins)
  \/ handleIdleState(EffectDraws)
  \/ handleStartingState
  \/ handlePlayingState
  \/ knockoutPullback
  \/ knockoutStrike
  \/ knockoutTremor
  \/ endGame
  \/ handleGameOverState(EffectDraws)
  \/ updateNeoPixelsOn(liveLimit, pollDelay, MaxIdlePolls)

SpecLive == Init /\ [][NextLive]_vars /\ WF_vars(NextLive)

----------------------------------------------------------------------------
\* Properties

KnockoutPcs == {"pullback", "strike", "tremor", "endGame"}

PollEnd == pc = "updateNeoPixels" \/ pc = "loop"

Cycle ==
  {<<IDLE, STARTING>>, <<STARTING, PLAYING>>, <<PLAYING, GAME_OVER>>,
   <<GAME_OVER, IDLE>>}

\* C1: between the start and the end of one loop() iteration the state never
\* goes from Idle to Playing nor from Playing to Idle.
C1_NoStateSkippedInOnePoll ==
  PollEnd =>
    /\ ~(stateAtLoopStart = IDLE /\ currentState = PLAYING)
    /\ ~(stateAtLoopStart = PLAYING /\ currentState = IDLE)

\* C2 as stated: every assignment of currentState follows the cycle
\* Idle -> Starting -> Playing -> GameOver -> Idle.
C2_OnlyCycle_stated ==
  change # <<>> => <<change[1], change[2]>> \in Cycle

\* C2 as amended: every assignment of currentState follows the cycle, or goes
\* from GameOver to Starting (a start press accepted during GameOver).
C2_CycleOrRestart ==
  change # <<>> =>
    <<change[1], change[2]>> \in Cycle \cup {<<GAME_OVER, STARTING>>}

C2_RestartFromGameOver ==
  change # <<>> /\ change[1] = GAME_OVER /\ change[2] = STARTING

\* C3: the Starting -> Playing transition never fires earlier than 4000 ms
\* of clock time after startGame() recorded gameStartTime.
C3_CountdownLasts4000 ==
  (change # <<>> /\ change[1] = STARTING /\ change[2] = PLAYING)
    => change[3] >= 4000

\* C4: the GameOver -> Idle transition never fires earlier than 3000 ms of
\* clock time after endGame() recorded gameStartTime.
C4_GameOverLasts3000 ==
  (change # <<>> /\ change[1] = GAME_OVER /\ change[2] = IDLE)
    => change[3] >= 3000

C4_ReturnedToIdle ==
  change # <<>> /\ change[1] = GAME_OVER /\ change[2] = IDLE /\ winner # 0

\* C5: a score changes only by +1 in checkButtons while Playing, or to 0 on
\* entry to Starting; a sample taken in another state leaves both scores as
\* they are; after a win the scores are frozen until the next start.
C5_ScoreChanges ==
  [][ /\ player1Score' # player1Score =>
           \/ /\ player1Score' = player1Score + 1
              /\ pc = "checkButtons"
              /\ currentState = PLAYING /\ currentState' = PLAYING
           \/ /\ player1Score' = 0 /\ player2Score' = 0
              /\ currentState # STARTING /\ currentState' = STARTING
      /\ player2Score' # player2Score =>
           \/ /\ player2Score' = player2Score + 1
              /\ pc = "checkButtons"
              /\ currentState = PLAYING /\ currentState' = PLAYING
           \/ /\ player1Score' = 0 /\ player2Score' = 0
              /\ currentState # STARTING /\ currentState' = STARTING
      /\ (winner # 0 /\ winner' # 0) =>
           (player1Score' = player1Score /\ player2Score' = player2Score)
    ]_vars

C5_ClickCounted ==
  /\ currentState = PLAYING
  /\ "click1" \in did
  /\ player1Score >= 2

\* C6: after every updateGame() tick currentServoPosition is
\* clamp(90 + (p1 - p2) * 2, 45, 135), the angle commanded is within 2 units
\* of it, and the jitter is not stored in currentServoPosition.
C6_TickPosition ==
  "updateGame" \in did =>
    LET t == 90 + ((player1Score - player2Score) * 2)
    IN  /\ currentServoPosition = (IF t < 45 THEN 45 ELSE IF t > 135 THEN 135 ELSE t)
        /\ Len(out) >= 1
        /\ out[1][1] = "servo.write"
        /\ out[1][2] - currentServoPosition \in -2..2

C6_JitteredTick ==
  /\ "updateGame" \in did
  /\ player1Score - player2Score >= 5
  /\ out[1][2] = currentServoPosition + 2

\* C7: in the poll where the position is at MIN (MAX) while Playing, winner
\* becomes 2 (1), the knockout is run once with that winner and the poll ends
\* in GameOver; the knockout runs once per round and never with winner = 0.
C7_KnockoutOncePerRound ==
  /\ koRuns \in {0, 1}
  /\ "win" \in did =>
       /\ stateAtLoopStart = PLAYING
       /\ currentServoPosition \in {SERVO_MIN, SERVO_MAX}
       /\ winner = (IF currentServoPosition = SERVO_MIN THEN 2 ELSE 1)
       /\ koRuns = 1
       /\ pc = "pullback"
  /\ pc \in KnockoutPcs => (winner # 0 /\ koRuns = 1 /\ currentState = PLAYING)
  /\ (currentState = PLAYING /\ pc \notin KnockoutPcs) =>
       /\ koRuns = 0
       /\ currentServoPosition > SERVO_MIN
       /\ currentServoPosition < SERVO_MAX
  /\ (PollEnd /\ stateAtLoopStart = PLAYING /\ koRuns = 1) =>
       currentState = GAME_OVER
  /\ currentState = GAME_OVER => koRuns = 1
  /\ currentState = STARTING => koRuns = 0

C7_Player2Wins ==
  "win" \in did /\ winner = 2 /\ currentServoPosition = SERVO_MIN

\* C8 as stated: with p1 = 10, p2 = 0 the target of updateGame() is MAX and
\* the win check of the same poll flags player 1.
C8_TenClicksWin_stated ==
  ("updateGame" \in did /\ player1Score = 10 /\ player2Score = 0) =>
    (currentServoPosition = SERVO_MAX /\ winner = 1)

\* C8 as amended: with p1 = 10, p2 = 0 the target of updateGame() is
\* CENTER + 20 = 110, below MAX, and the win check of the same poll flags
\* no winner.
C8_TenClicksNoWin ==
  ("updateGame" \in did /\ player1Score = 10 /\ player2Score = 0) =>
    /\ currentServoPosition = 110
    /\ winner = 0
    /\ "win" \notin did
    /\ pc = "updateNeoPixels"

C8_TenClicksTick ==
  "updateGame" \in did /\ player1Score = 10 /\ player2Score = 0

\* C9 as stated: winner = 0 in every Idle and Starting state and in Playing
\* before a win is detected.
C9_WinnerOnlyInGameOver_stated ==
  /\ currentState \in {IDLE, STARTING} => winner = 0
  /\ (currentState = PLAYING /\ pc \notin KnockoutPcs) => winner = 0

\* C9 as amended: winner = 0 in Starting, in Playing before a win is
\* detected and in Idle before the first completed round; in Idle reached
\* after a completed round winner keeps that round's value.
C9_WinnerClearedByStart ==
  /\ currentState = STARTING => winner = 0
  /\ (currentState = PLAYING /\ pc \notin KnockoutPcs) => winner = 0
  /\ (currentState = IDLE /\ koRuns = 0) => winner = 0
  /\ (currentState = IDLE /\ koRuns = 1) => winner \in {1, 2}

C9_SecondCountdown ==
  currentState = STARTING /\ winner = 0 /\ change # <<>> /\ change[1] = GAME_OVER

\* C10: currentServoPosition and every angle given to armServo.write are in
\* [45, 135] at every step, those of the choreography included, and every
\* level given to the audio module is in [0, 30].
C10_CommandsInRange ==
  /\ currentServoPosition \in 45..135
  /\ \A k \in 1..Len(out) :
       /\ out[k][1] = "servo.write" => out[k][2] \in 45..135
       /\ out[k][1] = "df.volume" => out[k][2] \in 0..30
  /\ dfVolume \in {NoLevel} \cup 0..30

C10_TremorAtBound ==
  /\ pc = "tremor"
  /\ ko.i = 1
  /\ ko.finalPosition = SERVO_MAX
  /\ out = <<Cmd("servo.write", SERVO_MAX)>>

\* C11: a start edge sampled less than 50 ms after the previously accepted
\* edge does not call onStartButtonPressed, and no call follows while the
\* input stays held.
C11_BounceSuppressed ==
  [][ pc = "checkButtons" =>
        /\ (/\ ~lastButtonStartState
            /\ lastButtonStartState'
            /\ currentTime - lastButtonStartTime < 50)
             => ("startEdge" \notin did' /\ UNCHANGED lastButtonStartTime)
        /\ lastButtonStartState => "startEdge" \notin did'
    ]_vars

C11_BounceSampled ==
  /\ "startRise" \in did
  /\ "startEdge" \notin did
  /\ lastButtonStartTime > 0
  /\ currentTime - lastButtonStartTime < 50

\* C12: of two successive start edges whose poll timestamps are 50 ms or
\* more apart, the second calls onStartButtonPressed.
C12_SpacedEdgesAccepted ==
  [][ (/\ pc = "checkButtons"
       /\ ~lastButtonStartState
       /\ lastButtonStartState'
       /\ lastRiseTime > 0
       /\ currentTime - lastRiseTime >= 50)
        => "startEdge" \in did'
    ]_vars

\* C13: a start press accepted while Starting or Playing changes nothing of
\* the game and issues no command; a score moves in that poll only by a
\* player's own edge.
C13_IgnoredPressIsNoOp ==
  [][ (/\ pc = "checkButtons"
       /\ currentState \in {STARTING, PLAYING}
       /\ "startEdge" \in did')
        => /\ UNCHANGED <<currentState, winner, currentServoPosition,
                          gameStartTime, effectVars, lastDynamicVolume,
                          lastVolumeUpdate, dfVolume, servoAttached, clock>>
           /\ out' = <<>>
           /\ "startGame" \notin did'
           /\ player1Score' # player1Score =>
                (/\ currentState = PLAYING
                 /\ player1Score' = player1Score + 1
                 /\ pinP1' /\ ~lastButtonP1State)
           /\ player2Score' # player2Score =>
                (/\ currentState = PLAYING
                 /\ player2Score' = player2Score + 1
                 /\ pinP2' /\ ~lastButtonP2State)
    ]_vars

C13_PressDuringRound ==
  /\ currentState = PLAYING
  /\ pc = "dispatch"
  /\ "startEdge" \in did
  /\ "startGame" \notin did

\* C14: a start press accepted in Idle or GameOver leaves, at the end of
\* startGame(), state Starting, scores (0,0), no winner, the position at
\* CENTER, lastDynamicVolume at GAMEPLAY_MIN_VOLUME, every effect
\* continuation variable at its reset value, the servo attached and CENTER
\* as the last servo command.
C14_StartResetsGame ==
  "startGame" \in did =>
    /\ change # <<>>
    /\ change[1] \in {IDLE, GAME_OVER}
    /\ change[2] = STARTING
    /\ currentState = STARTING
    /\ player1Score = 0 /\ player2Score = 0
    /\ winner = 0
    /\ currentServoPosition = 90
    /\ lastDynamicVolume = 2
    /\ \A f \in DOMAIN effectVars :
         effectVars[f] = (CASE f \in {"cometDirection", "larsonDirection"} -> 1
                            [] f = "strobeState" -> FALSE
                            [] OTHER -> 0)
    /\ servoAttached
    /\ out[Len(out)] = <<"servo.write", 90>>

C14_StartAfterEffectRan ==
  /\ "startGame" \in did
  /\ change[1] = IDLE
  /\ change[3] >= 1000
  /\ currentIdleEffect = 8
  /\ effectVars.wipeColor = 0

\* C15: with dfPlayerReady false no audio command is ever issued, and
\* rounds still complete.
C15_NoAudioWhenNotReady ==
  ~dfPlayerReady =>
    /\ \A k \in 1..Len(out) :
         out[k][1] \notin {"df.play", "df.loop", "df.stop", "df.volume"}
    /\ dfVolume = NoLevel

C15_SilentRoundCompleted ==
  /\ ~dfPlayerReady
  /\ change # <<>>
  /\ change[1] = GAME_OVER
  /\ change[2] = IDLE

\* C16: for every position p of [45, 135] the volume mapping gives
\* 2 + floor(|p - 90| * 13 / 45): within [2, 15], 2 at the centre, 15 at
\* both ends, and never lower for a larger displacement; this is the
\* mapping in force at every updateGame() tick and the level the tick sends.
C16_VolumeMapping ==
  "updateGame" \in did =>
    /\ \A p \in 45..135 :
         LET d == IF p < 90 THEN 90 - p ELSE p - 90
         IN  /\ dynamicVolume(p) = 2 + ((d * 13) \div 45)
             /\ dynamicVolume(p) \in 2..15
    /\ dynamicVolume(90) = 2
    /\ dynamicVolume(135) = 15
    /\ dynamicVolume(45) = 15
    /\ \A p \in 45..134 :
         IF p < 90 THEN dynamicVolume(p) >= dynamicVolume(p + 1)
                   ELSE dynamicVolume(p) <= dynamicVolume(p + 1)
    /\ Len(out) >= 2 =>
         out[2] = <<"df.volume",
                    2 + ((abs(currentServoPosition - 90) * 13) \div 45)>>

C16_LoudTowardsPlayer2 ==
  /\ "updateGame" \in did
  /\ currentServoPosition < 70
  /\ Len(out) >= 2
  /\ out[2][1] = "df.volume"
  /\ out[2][2] >= 8

\* C17: performVictoryKnockout returns for either winner from every
\* position of [45, 135], with currentServoPosition and the last servo
\* command at 135 for player 1 and at 45 for player 2.
C17_KnockoutReturnsAtBound ==
  <>(/\ pc = "endGame"
     /\ currentServoPosition = (IF winner = 1 THEN 135 ELSE 45)
     /\ out = << <<"servo.write", currentServoPosition>> >>)

C17_ReturnedForPlayer2 ==
  /\ pc = "endGame"
  /\ winner = 2
  /\ currentServoPosition = SERVO_MIN
  /\ clock > currentTime

\* C18: after updateMusicTiming(now), currentBeat = floor(elapsed / 571)
\* and the phase numerator is elapsed mod 571, in [0, 571), with
\* elapsed = now - musicStartTime; between two resets of the epoch
\* currentBeat never decreases.
C18_BeatClock ==
  /\ [](pc = "checkButtons" =>
          /\ currentTime >= musicStartTime
          /\ timeInBeat \in 0..570
          /\ currentBeat >= 0
          /\ (currentBeat * 571) + timeInBeat = currentTime - musicStartTime)
  /\ [][ (/\ pc = "loop"
           /\ currentTime - ((currentBeat * 571) + timeInBeat) = musicStartTime)
            => currentBeat' >= currentBeat ]_vars

C18_BeatsAfterEpochReset ==
  /\ pc = "checkButtons"
  /\ musicStartTime > 2000
  /\ currentBeat >= 3
  /\ timeInBeat > 0

\* C19: outside the victory choreography no operation executes a blocking
\* delay once the game is active.
C19_NoDelayOutsideKnockout ==
  "delay" \in did => "knockout" \in did

\* C20: a score is incremented only in a poll whose player input was
\* inactive at the poll before, whatever the state of that earlier poll.
C20_OutsideEdgesDropped ==
  [][ /\ player1Score' = player1Score + 1 => ~pinP1
      /\ player2Score' = player2Score + 1 => ~pinP2
    ]_vars

\* C21: while Playing, every poll that samples a player input active after
\* the poll before had it inactive adds exactly 1 to that player's score,
\* the first Playing poll of a round included.
C21_EveryEdgeCounted ==
  [][ (pc = "checkButtons" /\ currentState = PLAYING) =>
        /\ (pinP1' /\ ~pinP1) => player1Score' = player1Score + 1
        /\ (pinP2' /\ ~pinP2) => player2Score' = player2Score + 1
    ]_vars

\* C22: currentServoPosition is CENTER after every entry to Starting and
\* after every exit from GameOver, hence in every Idle state.
C22_CenteredOutsideRound ==
  /\ (change # <<>> /\ (change[2] = STARTING \/ change[1] = GAME_OVER))
       => currentServoPosition = SERVO_CENTER
  /\ currentState = IDLE => currentServoPosition = SERVO_CENTER

\* C23: every step that leaves GameOver sets musicStartTime to the time it
\* reads, every restart of the idle music comes with such a reset, and
\* musicStartTime changes in no other step.
C23_EpochResetOnGameOverExit ==
  [][ /\ (currentState = GAME_OVER /\ currentState' # GAME_OVER)
           => musicStartTime' = clock'
      /\ (\E k \in 1..Len(out') : out'[k] = <<"df.play", 1>>)
           => musicStartTime' = clock'
      /\ musicStartTime' # musicStartTime
           => (currentState = GAME_OVER /\ currentState' # GAME_OVER)
    ]_vars

\* C24 as stated: the tremor issues exactly 6 commands alternating between
\* final + 3 and final - 3, then one command at the final position.
C24_TremorAroundFinal_stated ==
  [][ pc = "tremor" =>
        LET final == IF winner = 1 THEN 135 ELSE 45
        IN  IF ko.i < 6
              THEN out' = << <<"servo.write",
                               IF ko.i % 2 = 0 THEN final + 3 ELSE final - 3>> >>
              ELSE out' = << <<"servo.write", final>> >>
    ]_vars

\* C24 as amended: the tremor issues exactly 6 commands alternating between
\* final + 3 and final - 3 limited to [45, 135] (135, 132, ... for player 1
\* and 48, 45, ... for player 2), then one command at the final position.
C24_TremorClamped ==
  /\ [](pc = "tremor" => ko.i \in 0..6)
  /\ [][ /\ (pc # "tremor" /\ pc' = "tremor") => ko'.i = 0
         /\ pc = "tremor" =>
              LET final == IF winner = 1 THEN 135 ELSE 45
              IN  IF ko.i < 6
                    THEN /\ out' = << <<"servo.write",
                                        IF winner = 1
                                          THEN (IF ko.i % 2 = 0 THEN 135 ELSE 132)
                                          ELSE (IF ko.i % 2 = 0 THEN 48 ELSE 45)>> >>
                         /\ ko'.i = ko.i + 1
                         /\ pc' = "tremor"
                    ELSE /\ out' = << <<"servo.write", final>> >>
                         /\ currentServoPosition' = final
                         /\ pc' = "endGame"
       ]_vars

C24_SixthTremorSent ==
  /\ pc = "tremor"
  /\ ko.i = 6
  /\ winner = 2
  /\ out = << <<"servo.write", 45>> >>

\* C25: updateGame sends a volume command only when more than 200 ms have
\* passed since its last one and the level differs from lastDynamicVolume
\* (or it is its first call); the level sent is never the one the module
\* already holds from the last command, and lastVolumeUpdate moves only then.
C25_VolumeCommandsSpaced ==
  [][ /\ ("updateGame" \in did' /\ Len(out') >= 2) =>
           /\ out'[2][1] = "df.volume"
           /\ clock - lastVolumeUpdate > 200
           /\ lastVolumeUpdate = 0 \/ out'[2][2] # lastDynamicVolume
           /\ lastVolumeUpdate = 0 \/ out'[2][2] # dfVolume
           /\ lastVolumeUpdate' = clock
           /\ lastDynamicVolume' = out'[2][2]
      /\ lastVolumeUpdate' # lastVolumeUpdate =>
           ("updateGame" \in did' /\ Len(out') >= 2)
    ]_vars

C25_SentInLaterRound ==
  /\ "updateGame" \in did
  /\ Len(out) >= 2
  /\ out[2][2] >= 3
  /\ musicStartTime > SetupDone(TRUE)

\* C26: every Starting state is followed by Playing whatever the inputs do,
\* a countdown is left only to Playing and its start time is not moved,
\* every GameOver state is left, and every state has a next step (the
\* exploration stops only at the end of a poll in Idle or Playing).
C26_CountdownAndBlinkEnd ==
  /\ (currentState = STARTING) ~> (currentState = PLAYING)
  /\ (currentState = GAME_OVER) ~> (currentState \in {IDLE, STARTING})
  /\ [][currentState = STARTING =>
          (currentState' \in {STARTING, PLAYING} /\ gameStartTime' = gameStartTime)]_vars
  /\ [](\/ ENABLED NextLive
        \/ (pc = "updateNeoPixels" /\ currentState \in {IDLE, PLAYING}))

C26_PressedCountdownEnded ==
  /\ change # <<>>
  /\ change[1] = STARTING
  /\ change[2] = PLAYING
  /\ change[3] >= 4000
  /\ lastButtonStartTime > gameStartTime

\* C27: selectRandomIdleEffect runs after startup only on the GameOver ->
\* Idle transition and in handleIdleState while Idle, there only in a poll
\* whose beat is a positive multiple of 8 with phase below 0.1 and more than
\* 1000 ms after the previous periodic change; the effect changes in no
\* other step.
C27_PeriodicChangeGated ==
  [][ /\ "selectEffect" \in did' =>
           \/ /\ "toIdle" \in did'
              /\ currentState = GAME_OVER
              /\ currentState' = IDLE
           \/ /\ pc = "dispatch"
              /\ currentState = IDLE
              /\ currentState' = IDLE
              /\ currentBeat > 0
              /\ currentBeat % 8 = 0
              /\ timeInBeat * 10 < 571
              /\ currentTime - lastEffectChange > 1000
              /\ lastEffectChange' = currentTime
      /\ (currentIdleEffect' # currentIdleEffect
            \/ effectStartTime' # effectStartTime
            \/ lastEffectChange' # lastEffectChange)
           => "selectEffect" \in did'
    ]_vars

C27_SecondPeriodicChange ==
  /\ "selectEffect" \in did
  /\ "toIdle" \notin did
  /\ currentState = IDLE
  /\ currentBeat = 16
  /\ lastEffectChange - effectStartTime <= 1

\* C28 as stated: right after every selectRandomIdleEffect() every
\* continuation variable, the wipe colour included, holds its fixed reset
\* value, and the effect index is in [0, 12) in every state.
C28_AllResetFixed_stated ==
  /\ currentIdleEffect \in 0..11
  /\ "selectEffect" \in did =>
       effectVars =
         [firstPixelHue |-> 0, cometPosition |-> 0, cometDirection |-> 1,
          breathingPhase |-> 0, larsonPosition |-> 0, larsonDirection |-> 1,
          lastSparkle |-> 0, runningOffset |-> 0, wipePosition |-> 0,
          wipeColor |-> 0, theaterStep |-> 0, pulsePhase |-> 0,
          strobeTimer |-> 0, strobeState |-> FALSE, fireIntensityBeat |-> 0,
          wavePhase |-> 0]

\* C28 as amended: right after every selectRandomIdleEffect() every
\* continuation variable other than the wipe colour holds its fixed reset
\* value, whatever the effect before left, the wipe colour is the colour
\* just drawn, and the effect index is in [0, 12) in every state.
C28_ResetButWipeColor ==
  /\ currentIdleEffect \in 0..11
  /\ "selectEffect" \in did =>
       /\ [effectVars EXCEPT !.wipeColor = 0] =
            [firstPixelHue |-> 0, cometPosition |-> 0, cometDirection |-> 1,
             breathingPhase |-> 0, larsonPosition |-> 0, larsonDirection |-> 1,
             lastSparkle |-> 0, runningOffset |-> 0, wipePosition |-> 0,
             wipeColor |-> 0, theaterStep |-> 0, pulsePhase |-> 0,
             strobeTimer |-> 0, strobeState |-> FALSE, fireIntensityBeat |-> 0,
             wavePhase |-> 0]
       /\ effectVars.wipeColor \in WipeColors

C28_PeriodicChangeDrewColor ==
  /\ "selectEffect" \in did
  /\ "toIdle" \notin did
  /\ currentBeat = 8
  /\ currentIdleEffect = 8
  /\ effectVars.wipeColor # 0

\* the servo's attach status after the commands cmds, starting from attached,
\* and whether every servo.write among them found the servo attached
RECURSIVE servoAfter(_, _)
servoAfter(cmds, attached) ==
  IF cmds = <<>> THEN <<attached, TRUE>>
  ELSE LET c == Head(cmds)
           rest == servoAfter(Tail(cmds),
                              IF c[1] = "servo.attach" THEN TRUE
                              ELSE IF c[1] = "servo.detach" THEN FALSE
                              ELSE attached)
       IN  <<rest[1], rest[2] /\ (c[1] = "servo.write" => attached)>>

\* C29: the servo is attached exactly when the state is Starting, Playing or
\* GameOver, detach is issued only by a step that ends in Idle, and no
\* servo.write is issued while the servo is detached.
C29_ServoAttachedOutsideIdle ==
  /\ [](servoAttached <=> currentState \in {STARTING, PLAYING, GAME_OVER})
  /\ [][ /\ servoAfter(out', servoAttached) = <<servoAttached', TRUE>>
         /\ (\E k \in 1..Len(out') : out'[k][1] = "servo.detach")
              => currentState' = IDLE
       ]_vars

C29_DetachedOnReturnToIdle ==
  /\ "toIdle" \in did
  /\ ~servoAttached
  /\ Len(out) >= 2
  /\ out[1] = <<"servo.write", 90>>
  /\ out[2] = <<"servo.detach", 0>>

\* C30: in GameOver the winner is 1 or 2, the position is MAX for winner 1
\* and MIN for winner 2, and the scores show a lead of the winner with
\* lead * STEP >= 45; a winner is never set with a smaller lead.
C30_GameOverHasWinner ==
  /\ currentState = GAME_OVER =>
       /\ winner \in {1, 2}
       /\ currentServoPosition = (IF winner = 1 THEN 135 ELSE 45)
  /\ winner = 1 => (player1Score - player2Score) * 2 >= 135 - 90
  /\ winner = 2 => (player2Score - player1Score) * 2 >= 90 - 45
  /\ winner # 0 => (player1Score - player2Score >= 23
                      \/ player2Score - player1Score >= 23)

C30_WonWithLead ==
  /\ currentState = GAME_OVER
  /\ winner = 2
  /\ player2Score - player1Score \in {23, 24}
  /\ pc = "loop"

\* C31: with the audio module ready, at every poll boundary the level the
\* module holds is IDLE_VOLUME in Idle, Starting and GameOver, and in Playing
\* it is lastDynamicVolume and within [2, 15]; the entry to Playing sends
\* GAMEPLAY_MIN_VOLUME as its last command.
C31_VolumeFollowsState ==
  dfPlayerReady =>
    /\ pc = "loop" =>
         IF currentState = PLAYING
           THEN dfVolume \in 2..15 /\ dfVolume = lastDynamicVolume
           ELSE dfVolume = 15
    /\ "toPlaying" \in did =>
         /\ dfVolume = 2
         /\ Len(out) >= 1
         /\ out[Len(out)] = <<"df.volume", 2>>

C31_LoudPollInLaterRound ==
  /\ dfPlayerReady
  /\ pc = "loop"
  /\ currentState = PLAYING
  /\ dfVolume >= 10
  /\ musicStartTime > SetupDone(TRUE)

====
